---------------------------- MODULE Spec2Model ----------------------------
(***************************************************************************)
(* One call of fuzzinator.reduce.Picireny (src/fuzzinator/reduce/          *)
(* picireny.py): the resolution of the configuration, the loading of the   *)
(* island descriptor, the assembly of the engine payload, the engine run   *)
(* with its call-backs into the test oracle, and the result handed back.   *)
(*                                                                         *)
(* Python values are written as their repr in a TLA+ string: "True" is the *)
(* boolean True, "'True'" the str 'True', "4" the int 4, "'4'" the str     *)
(* '4', "None" is None.  Names that the code looks up (hddmin,             *)
(* split_method, the iterators, cache_class) are written bare.             *)
(***************************************************************************)
EXTENDS Integers, Sequences, FiniteSets, TLC

VARIABLES
    pc,           \* position of the call inside Picireny
    args,         \* the arguments as the caller supplied them (never rebound)
    islandFile,   \* what the file named by islands holds
    workerKind,   \* what the engine's parallel workers are: processes or threads
    locals,       \* the local names of Picireny, rebound as the code rebinds them
    evald,        \* the argument names handed to eval_arg so far
    warnings,     \* number of listener.warning calls received
    call_config,  \* the payload of picireny.call
    engine,       \* picireny.call: "not called", "running", "raised" or "returned"
    issues,       \* the dict created at line 124: a sequence of <<key, value>>
    workers,      \* state of each engine worker
    ncalls,       \* oracle invocations made so far
    last,         \* the oracle's latest classification: <<outcome id, verdict>>
    observed,     \* identities other than the expected one seen by any oracle run
    repeated,     \* whether such an identity was seen more than once
    ret           \* how the call ended

vars == <<pc, args, islandFile, workerKind, locals, evald, warnings, call_config,
          engine, issues, workers, ncalls, last, observed, repeated, ret>>

---------------------------------------------------------------------------
(* Bounds of the model. *)

\* oracle invocations the engine makes during one call
MaxCalls == 3
\* failure identities the system under test can produce: 1..MaxIds
MaxIds == 3
\* engine workers that may run at the same time
MaxWorkers == 2

---------------------------------------------------------------------------
(* Python values. *)

\* the str values among the modelled reprs
StrValues == {"'True'", "'False'", "'0'", "'1'", "'2'", "'4'", "'50'", "'100'"}

\* isinstance(arg, str)
IsStr(arg) == arg \in StrValues

\* eval() of a str holding a literal: the literal's value
Eval(arg) ==
    CASE arg = "'True'"  -> "True"
      [] arg = "'False'" -> "False"
      [] arg = "'0'"     -> "0"
      [] arg = "'1'"     -> "1"
      [] arg = "'2'"     -> "2"
      [] arg = "'4'"     -> "4"
      [] arg = "'50'"    -> "50"
      [] arg = "'100'"   -> "100"

\* eval_arg, line 69-70
eval_arg(arg) == IF IsStr(arg) THEN Eval(arg) ELSE arg

\* Python truth value: False, 0, None and the empty str are false, all else true
Truthy(v) == v \notin {"False", "0", "None", "''"}

\* the int behind the repr of an int
IntOf(v) ==
    CASE v = "0" -> 0 [] v = "1" -> 1 [] v = "2" -> 2 [] v = "4" -> 4
      [] v = "50" -> 50 [] v = "100" -> 100

---------------------------------------------------------------------------
(* The name spaces the code looks names up in. *)

\* keys of picireny.cli.args_hdd_choices
args_hdd_choices == {"full", "hddr"}
\* attributes of picire.config_splitters
config_splitters == {"zeller", "balanced"}
\* attributes of picire.config_iterators
config_iterators == {"forward", "backward", "skip"}
\* cache classes of picire
cache_classes == {"ContentCache", "ConfigCache"}

\* picire.shared_cache_decorator(cls)
shared_cache_decorator(cls) == "shared_cache_decorator(" \o cls \o ")"

---------------------------------------------------------------------------
(* The dict of discovered issues: a sequence of <<key, value>> in insertion
   order, as a Python dict keeps it. *)

Keys(d) == {d[i][1] : i \in 1..Len(d)}

\* d[k] = v: replaces the value of an existing key in place, else appends
DictSet(d, k, v) ==
    IF k \in Keys(d)
    THEN [i \in 1..Len(d) |-> IF d[i][1] = k THEN <<k, v>> ELSE d[i]]
    ELSE Append(d, <<k, v>>)

\* list(d.values())
Values(d) == [i \in 1..Len(d) |-> d[i][2]]

---------------------------------------------------------------------------
(* Strategy resolution, lines 74-92. *)

\* the key looked up at line 77: hddmin if hddmin else 'full'
HddKey(hddmin) == IF hddmin \in {"None", ""} THEN "full" ELSE hddmin

\* LookupFails with a default substituted for every unknown name
LookupNeverFails(space, name) == FALSE

\* whether a lookup of name in a name space fails (KeyError, AttributeError)
LookupFails(space, name) == name \notin space

\* ResolveJobs with the requested jobs evaluated whatever parallel is
ResolveJobsRequested(parallel, jobs) == [jobs |-> eval_arg(jobs), evald |-> {"jobs"}]

\* line 79: jobs = 1 if not parallel else eval_arg(jobs); parallel is the
\* evaluated value; evald tells whether jobs was handed to eval_arg
ResolveJobs(parallel, jobs) ==
    IF ~Truthy(parallel)
    THEN [jobs |-> "1", evald |-> {}]
    ELSE [jobs |-> eval_arg(jobs), evald |-> {"jobs"}]

\* ResolveCache without the wrapping
ResolveCacheBare(parallel, cache_class) == "picire." \o cache_class

\* lines 90-92: the cache class, wrapped when parallel is true
ResolveCache(parallel, cache_class) ==
    IF Truthy(parallel)
    THEN shared_cache_decorator("picire." \o cache_class)
    ELSE "picire." \o cache_class

\* lines 78-85: the options that are expression-evaluated
Evaluate(l) ==
    LET par == eval_arg(l.parallel)
        j   == ResolveJobs(par, l.jobs)
    IN [locals |-> [l EXCEPT !.hddmin = "args_hdd_choices." \o HddKey(l.hddmin),
                             !.parallel = par,
                             !.jobs = j.jobs,
                             !.cleanup = eval_arg(l.cleanup),
                             !.combine_loops = eval_arg(l.combine_loops),
                             !.subset_first = eval_arg(l.subset_first),
                             !.max_utilization = eval_arg(l.max_utilization)],
        evald  |-> {"parallel", "cleanup", "combine_loops", "subset_first",
                    "max_utilization"} \cup j.evald]

\* lines 87-92: the four getattr lookups, in order, then the cache wrapping
Lookups(l) ==
    IF LookupFails(config_splitters, l.split_method) THEN [exc |-> "AttributeError", locals |-> l]
    ELSE LET l1 == [l EXCEPT !.split_method = "picire.config_splitters." \o @] IN
    IF LookupFails(config_iterators, l.subset_iterator) THEN [exc |-> "AttributeError", locals |-> l1]
    ELSE LET l2 == [l1 EXCEPT !.subset_iterator = "picire.config_iterators." \o @] IN
    IF LookupFails(config_iterators, l.complement_iterator) THEN [exc |-> "AttributeError", locals |-> l2]
    ELSE LET l3 == [l2 EXCEPT !.complement_iterator = "picire.config_iterators." \o @] IN
    IF LookupFails(cache_classes, l.cache_class) THEN [exc |-> "AttributeError", locals |-> l3]
    ELSE [exc |-> "None",
          locals |-> [l3 EXCEPT !.cache_class = ResolveCache(l.parallel, @)]]

\* a raise that leaves Picireny
Raise(exc) == [kind |-> "raise", exc |-> exc]

Resolve ==
    /\ pc = "resolve"
    /\ IF LookupFails(args_hdd_choices, HddKey(locals.hddmin))
       THEN /\ ret' = Raise("KeyError")
            /\ pc' = "done"
            /\ UNCHANGED <<locals, evald>>
       ELSE LET e == Evaluate(locals)
                r == Lookups(e.locals)
            IN /\ locals' = r.locals
               /\ evald' = e.evald
               /\ IF r.exc = "None"
                  THEN pc' = "islands" /\ ret' = ret
                  ELSE pc' = "done" /\ ret' = Raise(r.exc)
    /\ UNCHANGED <<args, islandFile, workerKind, warnings, call_config, engine,
                   issues, workers, ncalls, last, observed, repeated>>

---------------------------------------------------------------------------
(* Island descriptor loading, lines 94-100. *)

\* conversion specifiers in the format string of line 100
FormatSpecifiers == 0

\* fmt % err with err a single object that is neither a tuple nor a mapping:
\* TypeError ("not all arguments converted") unless fmt converts exactly one
PercentRaises(specifiers) == specifiers # 1

\* the handler of line 99-100: the message is formatted first, and only a
\* message that could be built reaches listener.warning
IslandHandler ==
    IF PercentRaises(FormatSpecifiers)
    THEN [exc |-> "TypeError", warned |-> 0]
    ELSE [exc |-> "None", warned |-> 1]

LoadIslands ==
    /\ pc = "islands"
    /\ IF ~Truthy(locals.islands)
       THEN /\ pc' = "assemble"
            /\ UNCHANGED <<locals, warnings, ret>>
       ELSE CASE islandFile = "unreadable" ->
                   \* open() at line 95 is outside the try
                   /\ pc' = "done"
                   /\ ret' = Raise("OSError")
                   /\ UNCHANGED <<locals, warnings>>
              [] islandFile = "valid" ->
                   /\ pc' = "assemble"
                   /\ locals' = [locals EXCEPT !.islands = "IslandDescriptor"]
                   /\ UNCHANGED <<warnings, ret>>
              [] islandFile = "invalid" ->
                   \* json.loads or decode raises; islands keeps the path
                   LET h == IslandHandler
                   IN /\ warnings' = warnings + h.warned
                      /\ IF h.exc = "None"
                         THEN pc' = "assemble" /\ ret' = ret
                         ELSE pc' = "done" /\ ret' = Raise(h.exc)
                      /\ UNCHANGED locals
    /\ UNCHANGED <<args, islandFile, workerKind, evald, call_config, engine,
                   issues, workers, ncalls, last, observed, repeated>>

---------------------------------------------------------------------------
(* Assembly of the payload, lines 102-154. *)

\* lines 104-117: the reducer class
reduce_class(l) ==
    IF ~Truthy(l.parallel) THEN "picire.LightDD"
    ELSE IF Truthy(l.combine_loops) THEN "picire.CombinedParallelDD"
    ELSE "picire.ParallelDD"

\* reduce_config with the worker count and the cap set before the mode is
\* looked at, and the combined reducer given the separate iterators too
reduce_configShared(l) ==
    IF ~Truthy(l.parallel)
    THEN [split |-> l.split_method,
          proc_num |-> l.jobs,
          max_utilization |-> l.max_utilization,
          subset_iterator |-> l.subset_iterator,
          complement_iterator |-> l.complement_iterator,
          subset_first |-> l.subset_first]
    ELSE IF Truthy(l.combine_loops)
    THEN [split |-> l.split_method,
          proc_num |-> l.jobs,
          max_utilization |-> l.max_utilization,
          subset_iterator |-> l.subset_iterator,
          complement_iterator |-> l.complement_iterator,
          subset_first |-> l.subset_first,
          config_iterator |-> <<l.subset_first, l.subset_iterator, l.complement_iterator>>]
    ELSE [split |-> l.split_method,
          proc_num |-> l.jobs,
          max_utilization |-> l.max_utilization,
          subset_iterator |-> l.subset_iterator,
          complement_iterator |-> l.complement_iterator,
          subset_first |-> l.subset_first]

\* lines 103-120: the reducer's configuration
reduce_config(l) ==
    IF ~Truthy(l.parallel)
    THEN [split |-> l.split_method,
          subset_iterator |-> l.subset_iterator,
          complement_iterator |-> l.complement_iterator,
          subset_first |-> l.subset_first]
    ELSE IF Truthy(l.combine_loops)
    THEN [split |-> l.split_method,
          proc_num |-> l.jobs,
          max_utilization |-> l.max_utilization,
          config_iterator |-> <<l.subset_first, l.subset_iterator, l.complement_iterator>>]
    ELSE [split |-> l.split_method,
          proc_num |-> l.jobs,
          max_utilization |-> l.max_utilization,
          subset_iterator |-> l.subset_iterator,
          complement_iterator |-> l.complement_iterator,
          subset_first |-> l.subset_first]

\* tester_config with the expected identity left unset
tester_configUnset(a) == [expected |-> 0]

\* lines 125-133: the tester's configuration; its issues entry is the dict of
\* line 124 itself, the variable issues
tester_config(a) == [expected |-> a.issue.id]

\* CallConfig with the structural toggles expression-evaluated as well
CallConfigEvaluated(l, a) ==
    [reduce_class |-> reduce_class(l),
     reduce_config |-> reduce_config(l),
     tester_config |-> tester_config(a),
     src |-> a.issue.test,
     hddmin |-> l.hddmin,
     islands |-> l.islands,
     hdd_star |-> eval_arg(l.hdd_star),
     squeeze_tree |-> eval_arg(l.squeeze_tree),
     skip_unremovable_tokens |-> eval_arg(l.skip_unremovable_tokens),
     cache_class |-> l.cache_class,
     cleanup |-> l.cleanup]

\* lines 135-154
CallConfig(l, a) ==
    [reduce_class |-> reduce_class(l),
     reduce_config |-> reduce_config(l),
     tester_config |-> tester_config(a),
     src |-> a.issue.test,
     hddmin |-> l.hddmin,
     islands |-> l.islands,
     hdd_star |-> l.hdd_star,
     squeeze_tree |-> l.squeeze_tree,
     skip_unremovable_tokens |-> l.skip_unremovable_tokens,
     cache_class |-> l.cache_class,
     cleanup |-> l.cleanup]

Assemble ==
    /\ pc = "assemble"
    /\ pc' = "call"
    /\ issues' = <<>>
    /\ call_config' = CallConfig(locals, args)
    /\ UNCHANGED <<args, islandFile, workerKind, locals, evald, warnings, engine,
                   workers, ncalls, last, observed, repeated, ret>>

---------------------------------------------------------------------------
(* The test oracle, PicireTester, called back by the engine. *)

\* the outcome of a run of the system under test that shows no issue
NoIssue == 0

\* outcomes of one run of the system under test
Outcomes == {NoIssue} \cup (1..MaxIds)

\* the classification given to the engine
TesterVerdict(tc, o) == IF o = tc.expected THEN "fail" ELSE "pass"

\* the recording of a failure other than the expected one
TesterRecord(tc, d, o) ==
    IF o # NoIssue /\ o # tc.expected THEN DictSet(d, o, [id |-> o]) ELSE d

---------------------------------------------------------------------------
(* The engine run and the result, lines 156-165. *)

Idle == <<>>

\* workers the engine may use: none with a sequential reducer, else proc_num
WorkerIds ==
    IF "proc_num" \in DOMAIN call_config.reduce_config
    THEN {w \in 1..MaxWorkers : w <= IntOf(call_config.reduce_config.proc_num)}
    ELSE {}

\* the identities other than the expected one seen, after outcome o
Observe(o) == IF o \in {NoIssue, args.issue.id} THEN observed ELSE observed \cup {o}

\* line 157: picireny.call is entered
EngineCall ==
    /\ pc = "call"
    /\ pc' = "engine"
    /\ engine' = "running"
    /\ UNCHANGED <<args, islandFile, workerKind, locals, evald, warnings, call_config,
                   issues, workers, ncalls, last, observed, repeated, ret>>

\* the engine runs the oracle in the calling process
Oracle ==
    /\ pc = "engine"
    /\ ncalls < MaxCalls
    /\ \E o \in Outcomes :
         /\ issues' = TesterRecord(call_config.tester_config, issues, o)
         /\ last' = <<o, TesterVerdict(call_config.tester_config, o)>>
         /\ observed' = Observe(o)
         /\ repeated' = (repeated \/ o \in observed)
    /\ ncalls' = ncalls + 1
    /\ UNCHANGED <<pc, args, islandFile, workerKind, locals, evald, warnings,
                   call_config, engine, workers, ret>>

\* a worker of a parallel reducer runs the system under test on a candidate
WorkerObserve ==
    /\ pc = "engine"
    /\ ncalls < MaxCalls
    /\ \E w \in WorkerIds, o \in Outcomes :
         /\ workers[w] = Idle
         /\ workers' = [workers EXCEPT ![w] = <<o>>]
         /\ observed' = Observe(o)
         /\ repeated' = (repeated \/ o \in observed)
    /\ ncalls' = ncalls + 1
    /\ UNCHANGED <<pc, args, islandFile, workerKind, locals, evald, warnings,
                   call_config, engine, issues, last, ret>>

\* the worker classifies and records: a thread writes to the dict of line 124,
\* a process to its own copy of it, which ends with the process
WorkerRecord ==
    /\ pc = "engine"
    /\ \E w \in WorkerIds :
         /\ workers[w] # Idle
         /\ LET o == workers[w][1]
            IN /\ issues' = IF workerKind = "thread"
                            THEN TesterRecord(call_config.tester_config, issues, o)
                            ELSE issues
               /\ last' = <<o, TesterVerdict(call_config.tester_config, o)>>
         /\ workers' = [workers EXCEPT ![w] = Idle]
    /\ UNCHANGED <<pc, args, islandFile, workerKind, locals, evald, warnings,
                   call_config, engine, ncalls, observed, repeated, ret>>

\* ExceptHandler returning a fresh, empty list
ExceptHandlerEmpty(d) == [kind |-> "return", src |-> "None", issues |-> <<>>]

\* lines 158-160: the handler of an exception of picireny.call
ExceptHandler(d) == [kind |-> "return", src |-> "None", issues |-> Values(d)]

\* picireny.call raises
EngineRaise ==
    /\ pc = "engine"
    /\ pc' = "done"
    /\ engine' = "raised"
    /\ ret' = ExceptHandler(issues)
    /\ UNCHANGED <<args, islandFile, workerKind, locals, evald, warnings, call_config,
                   issues, workers, ncalls, last, observed, repeated>>

\* picireny.call returns the path of the reduced file
EngineReturn ==
    /\ pc = "engine"
    /\ \A w \in WorkerIds : workers[w] = Idle
    /\ pc' = "read"
    /\ engine' = "returned"
    /\ UNCHANGED <<args, islandFile, workerKind, locals, evald, warnings, call_config,
                   issues, workers, ncalls, last, observed, repeated, ret>>

\* lines 162-165: the reduced file is read back, outside the try
ReadBack ==
    /\ pc = "read"
    /\ pc' = "done"
    /\ \/ ret' = [kind |-> "return", src |-> "reduced", issues |-> Values(issues)]
       \/ ret' = Raise("OSError")
    /\ UNCHANGED <<args, islandFile, workerKind, locals, evald, warnings, call_config,
                   engine, issues, workers, ncalls, last, observed, repeated>>

---------------------------------------------------------------------------
(* The calls. *)

NoConfig == [unset |-> TRUE]

\* the arguments every modelled call shares
BaseArgs ==
    [hddmin |-> "None", parallel |-> "False", combine_loops |-> "False",
     split_method |-> "zeller", subset_first |-> "True",
     subset_iterator |-> "forward", complement_iterator |-> "forward",
     jobs |-> "4", max_utilization |-> "100", islands |-> "None",
     hdd_star |-> "True", squeeze_tree |-> "True",
     skip_unremovable_tokens |-> "True", cache_class |-> "ContentCache",
     cleanup |-> "True", issue |-> [id |-> 1, test |-> "test"]]

\* what does not depend on the arguments
InitRest ==
    /\ pc = "resolve"
    /\ locals = args
    /\ evald = {}
    /\ warnings = 0
    /\ call_config = NoConfig
    /\ engine = "not called"
    /\ issues = <<>>
    /\ workers = [w \in 1..MaxWorkers |-> Idle]
    /\ ncalls = 0
    /\ last = <<>>
    /\ observed = {}
    /\ repeated = FALSE
    /\ ret = [kind |-> "pending"]

\* calls that differ in what decides the course of the run
Init ==
    /\ \E par \in {"False", "True", "'False'", "'True'"},
          j \in {"4", "'2'"},
          h \in {"None", "hddr", "bogus"},
          sm \in {"zeller", "bogus"},
          si \in {"skip", "bogus"},
          ci \in {"forward", "bogus"},
          cc \in {"ContentCache", "bogus"},
          isl \in {"None", "'islands.json'"},
          e \in {1, MaxIds} :
         args = [BaseArgs EXCEPT !.parallel = par, !.jobs = j, !.hddmin = h,
                                 !.split_method = sm, !.subset_iterator = si,
                                 !.complement_iterator = ci, !.cache_class = cc,
                                 !.islands = isl, !.issue = [id |-> e, test |-> "test"]]
    /\ islandFile \in (IF args.islands = "None" THEN {"absent"}
                       ELSE {"valid", "invalid", "unreadable"})
    /\ workerKind \in (IF Truthy(eval_arg(args.parallel)) THEN {"process", "thread"}
                       ELSE {"none"})
    /\ InitRest

Next ==
    \/ Resolve
    \/ LoadIslands
    \/ Assemble
    \/ EngineCall
    \/ Oracle
    \/ WorkerObserve
    \/ WorkerRecord
    \/ EngineRaise
    \/ EngineReturn
    \/ ReadBack

Spec == Init /\ [][Next]_vars

\* calls that differ in the configuration alone, up to the assembled payload
InitConfig ==
    /\ \E par \in {"False", "True", "'False'", "'True'", "0"},
          j \in {"4", "'2'", "1"},
          cl \in {"False", "True", "'False'", "'True'"},
          sf \in {"True", "False", "'False'"},
          mu \in {"100", "'50'"},
          cu \in {"True", "'False'"},
          h \in {"None", "hddr"},
          si \in {"forward", "skip"},
          ci \in {"forward", "backward"},
          cc \in {"ContentCache", "ConfigCache"},
          hs \in {"True", "False", "'False'"},
          sq \in {"True", "'False'"},
          su \in {"True", "'False'"} :
         args = [BaseArgs EXCEPT !.parallel = par, !.jobs = j, !.combine_loops = cl,
                                 !.subset_first = sf, !.max_utilization = mu,
                                 !.cleanup = cu, !.hddmin = h,
                                 !.subset_iterator = si, !.complement_iterator = ci,
                                 !.cache_class = cc, !.hdd_star = hs,
                                 !.squeeze_tree = sq, !.skip_unremovable_tokens = su]
    /\ islandFile = "absent"
    /\ workerKind = "none"
    /\ InitRest

NextConfig ==
    \/ Resolve
    \/ LoadIslands
    \/ Assemble

SpecConfig == InitConfig /\ [][NextConfig]_vars

---------------------------------------------------------------------------
(* Properties. *)

\* the identities of a list of issue records
Ids(list) == {list[i].id : i \in 1..Len(list)}

\* a list of issue records holds no identity twice
NoDuplicate(list) == \A i, j \in 1..Len(list) : list[i].id = list[j].id => i = j

\* the value a literal option stands for
Literal(v) ==
    CASE v \in {"True", "'True'"}   -> "True"
      [] v \in {"False", "'False'"} -> "False"
      [] v \in {"0", "'0'"}         -> "0"
      [] v \in {"1", "'1'"}         -> "1"
      [] v \in {"2", "'2'"}         -> "2"
      [] v \in {"4", "'4'"}         -> "4"
      [] v \in {"50", "'50'"}       -> "50"
      [] v \in {"100", "'100'"}     -> "100"

\* some looked-up name of the call is unknown
UnknownName ==
    \/ HddKey(args.hddmin) \notin args_hdd_choices
    \/ args.split_method \notin config_splitters
    \/ args.subset_iterator \notin config_iterators
    \/ args.complement_iterator \notin config_iterators
    \/ args.cache_class \notin cache_classes

\* C1: when picireny.call raises, the call returns (None, issues) with exactly
\* the records the discovered-issues dict held at the raise, each once, and
\* nothing is propagated; in a sequential run these are exactly the
\* identities, other than the expected one, that the oracle saw.
C1_EngineRaiseKeepsIssues ==
    engine = "raised" =>
        /\ pc = "done"
        /\ ret.kind = "return"
        /\ ret.src = "None"
        /\ Ids(ret.issues) = Keys(issues)
        /\ Len(ret.issues) = Cardinality(Keys(issues))
        /\ \A i \in 1..Len(ret.issues) : ret.issues[i] = [id |-> issues[i][1]]
        /\ workerKind = "none" => Ids(ret.issues) = observed

C1_Witness ==
    /\ engine = "raised"
    /\ ret.kind = "return"
    /\ Len(ret.issues) = 2
    /\ repeated

\* C2: with an otherwise valid configuration and an invalid island descriptor
\* file, the listener gets exactly one warning, the engine is invoked with
\* islands None, and the call does not end in an exception of the loader.
C2_InvalidIslandsDegrade ==
    (/\ pc = "done"
     /\ ~UnknownName
     /\ Truthy(args.islands)
     /\ islandFile = "invalid") =>
        /\ warnings = 1
        /\ engine # "not called"
        /\ call_config.islands = "None"

\* C3: every call that ends after the engine was invoked, with issues
\* recorded during the run, hands them back to the caller, whatever failed
\* later.
C3_IssuesAlwaysHandedBack ==
    (pc = "done" /\ engine # "not called" /\ issues # <<>>) =>
        /\ ret.kind = "return"
        /\ Ids(ret.issues) = Keys(issues)

\* C4: in parallel mode every identity other than the expected one that a
\* finished oracle invocation saw, in whatever worker, is in the collection
\* returned to the caller, once.
C4_ParallelInsertsVisible ==
    (/\ pc = "done"
     /\ ret.kind = "return"
     /\ Truthy(locals.parallel)
     /\ \A w \in WorkerIds : workers[w] = Idle) =>
        /\ Ids(ret.issues) = observed
        /\ NoDuplicate(ret.issues)

\* C5: the discovered issues never hold the expected identity and hold each
\* identity at most once, however often it was seen; an outcome with the
\* expected identity is classified "fail" and adds nothing, any other "pass".
C5_ExpectedExcludedDeduplicated ==
    /\ args.issue.id \notin Keys(issues)
    /\ Len(issues) = Cardinality(Keys(issues))
    /\ Keys(issues) \subseteq observed
    /\ last # <<>> =>
          last[2] = (IF last[1] = args.issue.id THEN "fail" ELSE "pass")
    /\ ret.kind = "return" =>
          /\ args.issue.id \notin Ids(ret.issues)
          /\ NoDuplicate(ret.issues)
          /\ Ids(ret.issues) \subseteq observed

C5_Witness ==
    /\ ret.kind = "return"
    /\ ret.src = "reduced"
    /\ repeated
    /\ Len(ret.issues) = 1
    /\ last = <<args.issue.id, "fail">>

\* C6: when parallel evaluates to false, jobs is resolved to 1 whatever was
\* requested, and the requested jobs is not handed to eval_arg.
C6_SequentialJobsIsOne ==
    (pc # "resolve" /\ args.parallel \in {"False", "'False'", "0"}) =>
        /\ locals.jobs = "1"
        /\ "jobs" \notin evald

C6_Witness ==
    /\ pc = "call"
    /\ args.parallel = "'False'"
    /\ args.jobs = "4"
    /\ locals.jobs = "1"

\* C7: when parallel evaluates to true the payload's cache_class is
\* shared_cache_decorator applied to the named cache class, and a parallel
\* reducer class goes with a wrapped cache, a sequential one with the bare.
C7_ParallelCacheWrapped ==
    pc = "call" =>
        LET bare == "picire." \o args.cache_class
            par  == call_config.reduce_class \in
                       {"picire.ParallelDD", "picire.CombinedParallelDD"}
        IN /\ args.parallel \in {"True", "'True'"} =>
                  call_config.cache_class = shared_cache_decorator(bare)
           /\ par => call_config.cache_class = shared_cache_decorator(bare)
           /\ ~par => call_config.cache_class = bare

C7_Witness ==
    /\ pc = "call"
    /\ args.parallel = "'True'"
    /\ args.cache_class = "ConfigCache"
    /\ call_config.cache_class = "shared_cache_decorator(picire.ConfigCache)"

\* C8: an unknown hddmin, split method, iterator or cache class name ends the
\* call in a lookup error raised to the caller; the engine is never invoked,
\* no payload is built and no (None, issues) result is returned.
C8_UnknownNameFailsFast ==
    UnknownName =>
        /\ pc \in {"resolve", "done"}
        /\ engine = "not called"
        /\ call_config = NoConfig
        /\ pc = "done" =>
              ret = Raise(IF HddKey(args.hddmin) \notin args_hdd_choices
                          THEN "KeyError" ELSE "AttributeError")

C8_Witness ==
    /\ pc = "done"
    /\ args.hddmin = "hddr"
    /\ args.split_method = "zeller"
    /\ args.cache_class = "bogus"
    /\ args.parallel = "True"
    /\ ret = Raise("AttributeError")

\* C9: the reducer class and its configuration are decided by the evaluated
\* (parallel, combine_loops): LightDD with split, the two iterators and
\* subset_first and nothing else; CombinedParallelDD with split, proc_num,
\* max_utilization and one config_iterator; ParallelDD with split, proc_num,
\* max_utilization, the two iterators and subset_first.
C9_EngineSelection ==
    pc = "call" =>
        LET par == Literal(args.parallel) = "True"
            cl  == Literal(args.combine_loops) = "True"
            sp  == "picire.config_splitters." \o args.split_method
            si  == "picire.config_iterators." \o args.subset_iterator
            ci  == "picire.config_iterators." \o args.complement_iterator
            sf  == Literal(args.subset_first)
            j   == Literal(args.jobs)
            mu  == Literal(args.max_utilization)
        IN /\ ~par =>
                /\ call_config.reduce_class = "picire.LightDD"
                /\ call_config.reduce_config =
                       [split |-> sp, subset_iterator |-> si,
                        complement_iterator |-> ci, subset_first |-> sf]
           /\ (par /\ cl) =>
                /\ call_config.reduce_class = "picire.CombinedParallelDD"
                /\ call_config.reduce_config =
                       [split |-> sp, proc_num |-> j, max_utilization |-> mu,
                        config_iterator |-> <<sf, si, ci>>]
           /\ (par /\ ~cl) =>
                /\ call_config.reduce_class = "picire.ParallelDD"
                /\ call_config.reduce_config =
                       [split |-> sp, proc_num |-> j, max_utilization |-> mu,
                        subset_iterator |-> si, complement_iterator |-> ci,
                        subset_first |-> sf]

C9_Witness ==
    /\ pc = "call"
    /\ call_config.reduce_class = "picire.CombinedParallelDD"
    /\ args.jobs = "'2'"
    /\ call_config.reduce_config.proc_num = "2"
    /\ args.subset_first = "'False'"

\* C10: hdd_star, squeeze_tree and skip_unremovable_tokens are in the payload
\* as the caller gave them and are never handed to eval_arg, so the str
\* 'False' stays a true, non-empty str; parallel, cleanup, combine_loops,
\* subset_first and max_utilization are evaluated, and jobs when parallel.
C10_TogglesPassedUnchanged ==
    pc = "call" =>
        /\ call_config.hdd_star = args.hdd_star
        /\ call_config.squeeze_tree = args.squeeze_tree
        /\ call_config.skip_unremovable_tokens = args.skip_unremovable_tokens
        /\ args.hdd_star = "'False'" => Truthy(call_config.hdd_star)
        /\ evald \cap {"hdd_star", "squeeze_tree", "skip_unremovable_tokens"} = {}
        /\ {"parallel", "cleanup", "combine_loops", "subset_first",
            "max_utilization"} \subseteq evald
        /\ ("jobs" \in evald) = (Literal(args.parallel) = "True")
        /\ call_config.cleanup = Literal(args.cleanup)

C10_Witness ==
    /\ pc = "call"
    /\ args.hdd_star = "'False'"
    /\ call_config.hdd_star = "'False'"
    /\ args.cleanup = "'False'"
    /\ call_config.cleanup = "False"

===========================================================================
